---------------------------- MODULE Spec2Model ----------------------------
(***************************************************************************)
(* A model of lspx (honmaple/eglot-add-on): a proxy between one LSP client *)
(* and several language-server backends.                                   *)
(*                                                                         *)
(* The proxy owns one jsonrpc2 connection to the client (ProxyServer.conn, *)
(* handler ProxyServer.Handle) and one per backend (ProcessServer.conn,    *)
(* handler ProcessServer.Handle).  Neither handler is wrapped in           *)
(* jsonrpc2.AsyncHandler, so each connection's read loop calls Handle      *)
(* synchronously: while Handle runs, that connection reads nothing, neither *)
(* the next request nor the response to a call made on it.                 *)
(***************************************************************************)
EXTENDS Integers, Sequences, FiniteSets, TLC

(***************************************************************************)
(* Bounds of the model.                                                    *)
(***************************************************************************)
NumProcs == 2          \* configured backends
MaxRequests == 2       \* requests the client issues
MaxClientNotifs == 1   \* notifications the client issues
MaxBackendCalls == 1   \* calls the backends issue, in total
MaxBackendNotifs == 2  \* notifications the backends issue, in total
MaxEvents == 2         \* messages the client and the backends originate, in total
MaxPublishes == 3      \* aggregations run, in total
MaxResults == 3        \* backends consulted by one merge
MaxProviders == 2      \* names in one entry of the provider table
MaxSliceLen == 2       \* elements of a slice handed to merge

(***************************************************************************)
(* Configuration: s.procs and the backends' names (filepath.Base of the    *)
(* command).  Names identify backends: they are distinct.                  *)
(***************************************************************************)
ProcNames ==
  << "vscode-html-language-server", "tailwindcss-language-server",
     "vscode-css-language-server", "vscode-json-language-server" >>

Procs == 1..NumProcs

procs == [i \in 1..NumProcs |-> i]

Name(p) == ProcNames[p]

MethodInitialize == "initialize"
MethodTextDocumentCompletion == "textDocument/completion"
MethodTextDocumentHover == "textDocument/hover"
MethodTextDocumentDefinition == "textDocument/definition"
MethodTextDocumentRename == "textDocument/rename"
MethodTextDocumentReferences == "textDocument/references"
MethodTextDocumentPublishDiagnostics == "textDocument/publishDiagnostics"
MethodClientRegisterCapability == "client/registerCapability"
MethodWorkspaceDidChangeWatchedFiles == "workspace/didChangeWatchedFiles"
MethodTextDocumentDidChange == "textDocument/didChange"
MethodShutdown == "shutdown"

CodeInternalError == -32603

Contains(s, x) == \E k \in 1..Len(s) : s[k] = x

VARIABLES
  providers,   \* ProxyServer.providers: provider key -> list of backend names
  closed,      \* the backends whose connection is closed: a send on it fails
  diagMu,      \* ProxyServer.diagMu: 0 when free, else the holder
  diagCache,   \* ProxyServer.diagCache: uri -> (backend name -> diagnostics)
  clientOut,   \* bytes the client wrote that proxy.conn has not read yet
  clientIn,    \* every message written to the client, in order
  cans,        \* how many of the calls in clientIn the client has answered
  toProc,      \* per backend: every message written to its stdin, in order
  bdone,       \* per backend: how many of the requests in toProc it has answered
  fromProc,    \* per backend: what it wrote that proc.conn has not read yet
  hpc,         \* ProxyServer.Handle on proxy.conn's read loop: idle | wait
  req,         \* the request ProxyServer.Handle is (or was last) handling
  targets,     \* handleProcs: the procs argument
  tasks,       \* handleProcs: the state of each errgroup task
  results,     \* handleProcs: the results slice
  egErr,       \* errgroup.Group: the first error returned by a task
  relay,       \* per backend: ProcessServer.Handle on proc.conn's read loop
  seq,         \* jsonrpc2.Conn.seq of proxy.conn (0) and of each proc.conn
  nreq,        \* requests issued by the client so far
  ncn,         \* notifications issued by the client so far
  nbc,         \* calls issued by backends so far
  nbn,         \* notifications issued by backends so far
  lastSeen,    \* history: uri -> backend -> the batches read from it: how
               \* many, and the last one
  fnPc,        \* harness: init | done
  fnIn,        \* harness: the input of the operation under check
  fnOut        \* harness: its output

connVars == << clientOut, clientIn, cans, toProc, bdone, fromProc, hpc, req,
               targets, tasks, results, egErr, relay, seq, nreq, ncn, nbc,
               nbn, lastSeen >>

diagVars == << diagMu, diagCache >>

fnVars == << fnPc, fnIn, fnOut >>

vars == << providers, closed, diagVars, connVars, fnVars >>

(***************************************************************************)
(* Messages of the JSON-RPC sessions.                                      *)
(***************************************************************************)
NoBody == [k |-> "none"]

Request(id, method, params) ==
  [kind |-> "req", id |-> id, method |-> method, body |-> params,
   code |-> 0, err |-> ""]

Notification(method, params) ==
  [kind |-> "notif", id |-> -1, method |-> method, body |-> params,
   code |-> 0, err |-> ""]

Response(id, result) ==
  [kind |-> "resp", id |-> id, method |-> "", body |-> result,
   code |-> 0, err |-> ""]

ErrorResponse(id, code, message) ==
  [kind |-> "resp", id |-> id, method |-> "", body |-> NoBody,
   code |-> code, err |-> message]

NoReq == Request(-1, "", NoBody)

(***************************************************************************)
(* Provider routing.                                                       *)
(***************************************************************************)
providerMap ==
  (MethodTextDocumentHover :> "hover") @@
  (MethodTextDocumentCompletion :> "completion") @@
  (MethodTextDocumentDefinition :> "definition") @@
  (MethodTextDocumentRename :> "rename") @@
  (MethodTextDocumentReferences :> "references")

IsProvider(provs, p) == Contains(provs, Name(p))

\* Mutant: the provider entry is not consulted.
getProcsByProviders_Broadcast(method) == procs

\* Mutant: no fallback when the entry names no configured backend.
getProcsByProviders_NoFallback(method) ==
  IF method \notin DOMAIN providerMap THEN procs
  ELSE LET m == providerMap[method] IN
       IF m \notin DOMAIN providers \/ Len(providers[m]) = 0 THEN procs
       ELSE SelectSeq(procs, LAMBDA p : IsProvider(providers[m], p))

getProcsByProviders(method) ==
  IF method \notin DOMAIN providerMap THEN procs
  ELSE LET m == providerMap[method] IN
       IF m \notin DOMAIN providers \/ Len(providers[m]) = 0 THEN procs
       ELSE LET sel == SelectSeq(procs, LAMBDA p : IsProvider(providers[m], p))
            IN IF Len(sel) = 0 THEN procs ELSE sel

\* The procs argument ProxyServer.handle passes to handleProcs.
handleTargets(method) ==
  IF method = MethodInitialize THEN procs ELSE getProcsByProviders(method)

(***************************************************************************)
(* merge (util.go).  A value is an interface value: the nil interface, a   *)
(* pointer (nil or not) or a plain value.  reflect.ValueOf(x) followed by  *)
(* Elem() through the pointers is invalid exactly for a nil pointer.       *)
(***************************************************************************)
NilIface == [k |-> "nil", v |-> NoBody]

NilPtr == [k |-> "nilptr", v |-> NoBody]

Ptr(x) == [k |-> "ptr", v |-> x]

Val(x) == [k |-> "val", v |-> x]

Panic == [k |-> "panic", v |-> NoBody]

IsValid(x) == x.k \in {"ptr", "val"}

\* Lines 108-169 (the map, slice and struct cases) run only when both
\* operands are nil pointers, and there newVal.Type() at line 108 panics.
merge(o, n) ==
  IF n.k = "nil" THEN o
  ELSE IF o.k = "nil" THEN n
  ELSE IF IsValid(o) THEN n
  ELSE IF IsValid(n) THEN o
  ELSE Panic

(***************************************************************************)
(* The three request families of ProxyServer.handle.                       *)
(***************************************************************************)
RECURSIVE foldCapabilities(_, _, _)
foldCapabilities(caps, rs, k) ==
  IF k > Len(rs) THEN caps
  ELSE LET newCapabilities == merge(Ptr(caps), Ptr(rs[k].Capabilities))
       IN foldCapabilities(
            IF newCapabilities.k = "ptr" THEN newCapabilities.v ELSE caps,
            rs, k + 1)

handleInitialize(rs) ==
  [ServerInfo |-> rs[1].ServerInfo,
   Capabilities |-> foldCapabilities(rs[1].Capabilities, rs, 2)]

RECURSIVE completionItems(_, _)
completionItems(rs, k) ==
  IF k > Len(rs) THEN << >>
  ELSE IF rs[k].IsIncomplete THEN completionItems(rs, k + 1)
  ELSE rs[k].Items \o completionItems(rs, k + 1)

handleTextDocumentCompletion(rs) ==
  [Items |-> completionItems(rs, 1),
   IsIncomplete |-> \E k \in 1..Len(rs) : rs[k].IsIncomplete]

handleResult(method, rs) ==
  IF method = MethodInitialize THEN handleInitialize(rs)
  ELSE IF method = MethodTextDocumentCompletion
       THEN handleTextDocumentCompletion(rs)
  ELSE rs[1]


(***************************************************************************)
(* ProcessServer.Call and ProcessServer.Notify hand method and params to   *)
(* the backend's connection as they are.                                   *)
(***************************************************************************)
ProcessServer_Call(p, id, method, params) == Request(id, method, params)

ProcessServer_Notify(p, method, params) == Notification(method, params)

(***************************************************************************)
(* ProcessServer.handle: the params of a call the BACKEND issued, as they  *)
(* are relayed to the client.  Options are [k, v]: absent, a JSON object   *)
(* (v maps keys to values) or another JSON value.                          *)
(***************************************************************************)
TailwindWatchers == "tailwind-watchers"

RewriteRegistration(r) ==
  IF r.Method = MethodWorkspaceDidChangeWatchedFiles
  THEN [r EXCEPT !.RegisterOptions = TailwindWatchers]
  ELSE r

ProcessServer_handle(p, method, params) ==
  IF method = MethodInitialize
  THEN LET opts == params.InitializationOptions IN
       IF opts.k = "absent" THEN [err |-> "", params |-> params]
       ELSE IF opts.k # "map" THEN [err |-> "unmarshal", params |-> params]
       ELSE IF Name(p) \in DOMAIN opts.v
            THEN [err |-> "",
                  params |-> [params EXCEPT !.InitializationOptions =
                                              opts.v[Name(p)]]]
       ELSE [err |-> "", params |-> params]
  ELSE IF method = MethodClientRegisterCapability
          /\ Name(p) = "tailwindcss-language-server"
  THEN [err |-> "",
        params |-> [Registrations |->
                      [k \in 1..Len(params.Registrations) |->
                         RewriteRegistration(params.Registrations[k])]]]
  ELSE [err |-> "", params |-> params]

(***************************************************************************)
(* Diagnostics aggregation (handleTextDocumentPublishDiagnostics).         *)
(***************************************************************************)
\* Mutant: every diagnostic of the batch is stamped, tagged or not.
Stamp_Overwrite(diags, sourceTag) ==
  [k \in 1..Len(diags) |-> [diags[k] EXCEPT !.Source = sourceTag]]

Stamp(diags, sourceTag) ==
  [k \in 1..Len(diags) |->
     IF diags[k].Source = "" THEN [diags[k] EXCEPT !.Source = sourceTag]
     ELSE diags[k]]

\* Mutant: the document's entry is rebuilt from the incoming batch alone.
StoreDiagnostics_Rebuild(cache, uri, sourceTag, diags) ==
  (uri :> (sourceTag :> diags)) @@ cache

StoreDiagnostics(cache, uri, sourceTag, diags) ==
  LET old == IF uri \in DOMAIN cache THEN cache[uri] ELSE << >>
  IN (uri :> ((sourceTag :> diags) @@ old)) @@ cache

RECURSIVE Concat(_, _)
Concat(m, order) ==
  IF order = << >> THEN << >> ELSE m[Head(order)] \o Concat(m, Tail(order))

Orders(S) ==
  { o \in [1..Cardinality(S) -> S] : \A x \in S : \E k \in DOMAIN o : o[k] = x }

\* Ranging over a Go map visits its keys in an unspecified order.
MergedDiagnostics(cache, uri) ==
  { Concat(cache[uri], o) : o \in Orders(DOMAIN cache[uri]) }


(***************************************************************************)
(* The running proxy: the client, the two kinds of connection and the      *)
(* backends.                                                               *)
(***************************************************************************)
Docs == {"file:///a.html", "file:///b.css"}

ClientMethods ==
  {MethodInitialize, MethodTextDocumentCompletion, MethodTextDocumentHover}

BackendNotifMethods == {MethodTextDocumentPublishDiagnostics}

\* README.md, Usage.
UsageProviders ==
  ("completion" :> << ProcNames[1], ProcNames[2] >>) @@
  ("hover" :> << ProcNames[1] >>) @@
  ("definition" :> << ProcNames[1] >>)

Scalar(x) == [k |-> "scalar", v |-> x]

ClientParams(method) ==
  IF method = MethodInitialize
  THEN [InitializationOptions |->
          [k |-> "map", v |-> [n \in {Name(p) : p \in Procs} |-> Scalar(n)]]]
  ELSE NoBody

\* What backend p answers to a request it accepts.
BackendResult(p, method) ==
  IF method = MethodInitialize
  THEN [ServerInfo |-> Name(p),
        Capabilities |-> [HoverProvider |-> p = 1,
                          CompletionProvider |-> p = 2]]
  ELSE IF method = MethodTextDocumentCompletion
  THEN [Items |-> << p >>, IsIncomplete |-> p = 2]
  ELSE [raw |-> p]

BackendError(p) == "error from " \o Name(p)

\* The environment may originate one more message.
MayOriginate == nreq + ncn + nbc + nbn < MaxEvents

RelayIdle == [st |-> "idle", bid |-> -1, cid |-> -1, res |-> NoReq]

ProxyConn == 0

ProcConn(p) == p

getProcIndex(conn) ==
  IF \E p \in Procs : ProcConn(p) = conn
  THEN CHOOSE p \in Procs : ProcConn(p) = conn
  ELSE -1

InitConfig ==
  /\ closed = {}
  /\ diagMu = 0
  /\ diagCache = << >>

InitConnAfter(sent, n) ==
  /\ clientOut = sent
  /\ clientIn = << >>
  /\ cans = 0
  /\ toProc = [p \in Procs |-> << >>]
  /\ bdone = [p \in Procs |-> 0]
  /\ fromProc = [p \in Procs |-> << >>]
  /\ hpc = "idle"
  /\ req = NoReq
  /\ targets = << >>
  /\ tasks = << >>
  /\ results = << >>
  /\ egErr = ""
  /\ relay = [p \in Procs |-> RelayIdle]
  /\ seq = [c \in 0..NumProcs |-> 0]
  /\ nreq = n
  /\ ncn = 0
  /\ nbc = 0
  /\ nbn = 0
  /\ lastSeen = [u \in Docs |-> [p \in Procs |-> [n |-> 0, diags |-> << >>]]]

InitConn == InitConnAfter(<< >>, 0)

InitFn ==
  /\ fnPc = "off"
  /\ fnIn = NoBody
  /\ fnOut = NoBody

Init ==
  /\ providers = UsageProviders
  /\ InitConfig
  /\ InitConn
  /\ InitFn

(***************************************************************************)
(* The client.                                                             *)
(***************************************************************************)
ClientRequest(method) ==
  /\ MayOriginate
  /\ nreq < MaxRequests
  /\ nreq' = nreq + 1
  /\ clientOut' = Append(clientOut, Request(nreq + 1, method, ClientParams(method)))
  /\ UNCHANGED << clientIn, cans, toProc, bdone, fromProc, hpc, req, targets,
                  tasks, results, egErr, relay, seq, ncn, nbc, nbn, lastSeen >>
  /\ UNCHANGED << providers, closed, diagVars, fnVars >>

ClientNotify ==
  /\ MayOriginate
  /\ ncn < MaxClientNotifs
  /\ ncn' = ncn + 1
  /\ clientOut' = Append(clientOut, Notification(MethodTextDocumentDidChange, NoBody))
  /\ UNCHANGED << clientIn, cans, toProc, bdone, fromProc, hpc, req, targets,
                  tasks, results, egErr, relay, seq, nreq, nbc, nbn, lastSeen >>
  /\ UNCHANGED << providers, closed, diagVars, fnVars >>

Requests(log) == SelectSeq(log, LAMBDA m : m.kind = "req")

\* The client answers the calls relayed to it, in the order it got them.
ClientAnswer ==
  /\ cans < Len(Requests(clientIn))
  /\ cans' = cans + 1
  /\ LET m == Requests(clientIn)[cans + 1] IN
       \E ok \in BOOLEAN :
         clientOut' = Append(clientOut,
                             IF ok THEN Response(m.id, [raw |-> 0])
                             ELSE ErrorResponse(m.id, -32601, "client error"))
  /\ UNCHANGED << clientIn, toProc, bdone, fromProc, hpc, req, targets, tasks,
                  results, egErr, relay, seq, nreq, ncn, nbc, nbn, lastSeen >>
  /\ UNCHANGED << providers, closed, diagVars, fnVars >>


(***************************************************************************)
(* ProxyServer: the handler of proxy.conn.                                 *)
(***************************************************************************)
\* The outcomes of an aggregation run under diagMu: the cache it leaves and
\* the params it returns.
handleTextDocumentPublishDiagnostics(cache, params, p) ==
  LET sourceTag == Name(p)
      diags == Stamp(params.Diagnostics, sourceTag)
      stored == StoreDiagnostics(cache, params.URI, sourceTag, diags)
  IN { [cache |-> stored,
        params |-> [URI |-> params.URI, Diagnostics |-> m]] :
       m \in MergedDiagnostics(stored, params.URI) }

handleNotify(cache, r, p) ==
  IF r.method = MethodTextDocumentPublishDiagnostics
  THEN { [cache |-> a.cache, msg |-> Notification(r.method, a.params)] :
         a \in handleTextDocumentPublishDiagnostics(cache, r.body, p) }
  ELSE { [cache |-> cache, msg |-> Notification(r.method, r.body)] }

\* Mutant: the sends stop at the first backend whose send fails.
notifyProcs_StopAtFailure(method, params) ==
  [p \in Procs |->
     IF \E q \in closed : q <= p THEN toProc[p]
     ELSE Append(toProc[p], ProcessServer_Notify(p, method, params))]

\* Handle, req.Notif from the client: one task per backend calls
\* newProc.Notify; on a closed connection it returns an error, which the
\* group hands to Wait and Handle prints.
notifyProcs(method, params) ==
  [p \in Procs |->
     IF p \in closed THEN toProc[p]
     ELSE Append(toProc[p], ProcessServer_Notify(p, method, params))]

\* Handle, req.Notif: the connection it is called on is proxy.conn.
ProxyServer_Handle_Notif ==
  /\ hpc = "idle"
  /\ clientOut # << >>
  /\ Head(clientOut).kind = "notif"
  /\ clientOut' = Tail(clientOut)
  /\ LET r == Head(clientOut)
         procIdx == getProcIndex(ProxyConn)
     IN IF procIdx # -1
        THEN /\ \E a \in handleNotify(diagCache, r, procIdx) :
                  /\ diagCache' = a.cache
                  /\ clientIn' = Append(clientIn, a.msg)
             /\ UNCHANGED toProc
        ELSE /\ toProc' = notifyProcs(r.method, r.body)
             /\ UNCHANGED << clientIn, diagCache >>
  /\ UNCHANGED << cans, bdone, fromProc, hpc, req, targets, tasks, results,
                  egErr, relay, seq, nreq, ncn, nbc, nbn, lastSeen >>
  /\ UNCHANGED << providers, closed, diagMu, fnVars >>

\* handleProcs up to eg.Wait(): task k calls newProc.Call, which sends the
\* request on the backend's connection under the connection's next id.
handleProcs_Go(method, params, ps) ==
  [toProc |-> [p \in Procs |->
                 IF Contains(ps, p)
                 THEN Append(toProc[p],
                             ProcessServer_Call(p, seq[ProcConn(p)], method, params))
                 ELSE toProc[p]],
   tasks |-> [k \in 1..Len(ps) |-> [st |-> "calling", id |-> seq[ProcConn(ps[k])]]],
   seq |-> [c \in DOMAIN seq |->
              IF \E k \in 1..Len(ps) : ProcConn(ps[k]) = c THEN seq[c] + 1
              ELSE seq[c]]]

\* Handle, a request: s.handle up to eg.Wait() in handleProcs.
ProxyServer_Handle_Request ==
  /\ hpc = "idle"
  /\ clientOut # << >>
  /\ Head(clientOut).kind = "req"
  /\ clientOut' = Tail(clientOut)
  /\ req' = Head(clientOut)
  /\ targets' = handleTargets(Head(clientOut).method)
  /\ LET g == handleProcs_Go(Head(clientOut).method, Head(clientOut).body, targets')
     IN /\ toProc' = g.toProc
        /\ tasks' = g.tasks
        /\ seq' = g.seq
  /\ results' = [k \in 1..Len(targets') |-> NoBody]
  /\ egErr' = ""
  /\ hpc' = "wait"
  /\ UNCHANGED << clientIn, cans, bdone, fromProc, relay, nreq, ncn, nbc, nbn,
                  lastSeen >>
  /\ UNCHANGED << providers, closed, diagVars, fnVars >>

\* Mutant: the reply goes out under the id of the first backend call.
HandleReply_CallId(r, err, method, rs) ==
  IF err # "" THEN ErrorResponse(tasks[1].id, CodeInternalError, err)
  ELSE Response(tasks[1].id, handleResult(method, rs))

\* Mutant: a failed fan-out answers with the result of a backend that
\* succeeded, when there is one.
HandleReply_Partial(r, err, method, rs) ==
  IF err # "" /\ \A k \in 1..Len(rs) : rs[k] = NoBody
  THEN ErrorResponse(r.id, CodeInternalError, err)
  ELSE IF err # ""
  THEN Response(r.id, rs[CHOOSE k \in 1..Len(rs) : rs[k] # NoBody])
  ELSE Response(r.id, handleResult(method, rs))

\* What Handle writes to the client once eg.Wait() has returned.
HandleReply(r, err, method, rs) ==
  IF err # "" THEN ErrorResponse(r.id, CodeInternalError, err)
  ELSE Response(r.id, handleResult(method, rs))

\* Handle, a request: eg.Wait() returns when every task has returned.
ProxyServer_Handle_Reply ==
  /\ hpc = "wait"
  /\ \A k \in 1..Len(tasks) : tasks[k].st \in {"ok", "err"}
  /\ clientIn' = Append(clientIn, HandleReply(req, egErr, req.method, results))
  /\ hpc' = "idle"
  /\ UNCHANGED << clientOut, cans, toProc, bdone, fromProc, req, targets, tasks,
                  results, egErr, relay, seq, nreq, ncn, nbc, nbn, lastSeen >>
  /\ UNCHANGED << providers, closed, diagVars, fnVars >>

\* proxy.conn's read loop reads a response: it completes the pending call.
ProxyConn_Response ==
  /\ hpc = "idle"
  /\ clientOut # << >>
  /\ Head(clientOut).kind = "resp"
  /\ clientOut' = Tail(clientOut)
  /\ relay' = [p \in Procs |->
                 IF relay[p].st = "calling" /\ relay[p].cid = Head(clientOut).id
                 THEN [relay[p] EXCEPT !.st = "replied", !.res = Head(clientOut)]
                 ELSE relay[p]]
  /\ UNCHANGED << clientIn, cans, toProc, bdone, fromProc, hpc, req, targets,
                  tasks, results, egErr, seq, nreq, ncn, nbc, nbn, lastSeen >>
  /\ UNCHANGED << providers, closed, diagVars, fnVars >>

(***************************************************************************)
(* ProcessServer: the handler of a backend's connection.                   *)
(***************************************************************************)
\* Mutant: a result goes to the first free slot.
SetResult_FirstFree(rs, index, result) ==
  IF \E k \in 1..Len(rs) : rs[k] = NoBody
  THEN [rs EXCEPT ![CHOOSE k \in 1..Len(rs) :
                      rs[k] = NoBody /\ \A j \in 1..(k - 1) : rs[j] # NoBody] =
                    result]
  ELSE rs

\* results[index] = result
SetResult(rs, index, result) == [rs EXCEPT ![index] = result]

\* proc.conn's read loop reads a response: the task's Call returns.
ProcConn_Response(p) ==
  /\ relay[p].st = "idle"
  /\ fromProc[p] # << >>
  /\ Head(fromProc[p]).kind = "resp"
  /\ fromProc' = [fromProc EXCEPT ![p] = Tail(@)]
  /\ LET m == Head(fromProc[p])
         hit == { k \in 1..Len(tasks) :
                    /\ hpc = "wait"
                    /\ targets[k] = p
                    /\ tasks[k].st = "calling"
                    /\ tasks[k].id = m.id }
     IN /\ tasks' = [k \in 1..Len(tasks) |->
                       IF k \in hit
                       THEN [tasks[k] EXCEPT !.st = IF m.err = "" THEN "ok" ELSE "err"]
                       ELSE tasks[k]]
        /\ results' = IF hit # {} /\ m.err = ""
                       THEN SetResult(results, CHOOSE k \in hit : TRUE, m.body)
                       ELSE results
        /\ egErr' = IF hit # {} /\ m.err # "" /\ egErr = "" THEN m.err ELSE egErr
  /\ UNCHANGED << clientOut, clientIn, cans, toProc, bdone, hpc, req, targets,
                  relay, seq, nreq, ncn, nbc, nbn, lastSeen >>
  /\ UNCHANGED << providers, closed, diagVars, fnVars >>

\* Handle, req.Notif: s.proxyConn.Notify(ctx, req.Method, req.Params).
ProcessServer_Handle_Notif(p) ==
  /\ relay[p].st = "idle"
  /\ fromProc[p] # << >>
  /\ Head(fromProc[p]).kind = "notif"
  /\ fromProc' = [fromProc EXCEPT ![p] = Tail(@)]
  /\ LET m == Head(fromProc[p]) IN
       /\ clientIn' = Append(clientIn, Notification(m.method, m.body))
       /\ lastSeen' = IF m.method = MethodTextDocumentPublishDiagnostics
                      THEN [lastSeen EXCEPT ![m.body.URI][p] =
                              [n |-> @.n + 1, diags |-> m.body.Diagnostics]]
                      ELSE lastSeen
  /\ UNCHANGED << clientOut, cans, toProc, bdone, hpc, req, targets, tasks,
                  results, egErr, relay, seq, nreq, ncn, nbc, nbn >>
  /\ UNCHANGED << providers, closed, diagVars, fnVars >>

\* Handle, a call of the backend: s.handle up to s.proxyConn.Call, which
\* sends the call to the client and waits for the response.
ProcessServer_Handle_Call(p) ==
  /\ relay[p].st = "idle"
  /\ fromProc[p] # << >>
  /\ Head(fromProc[p]).kind = "req"
  /\ fromProc' = [fromProc EXCEPT ![p] = Tail(@)]
  /\ LET m == Head(fromProc[p])
         h == ProcessServer_handle(p, m.method, m.body)
     IN IF h.err # ""
        THEN /\ toProc' = [toProc EXCEPT ![p] =
                             Append(@, ErrorResponse(m.id, CodeInternalError, h.err))]
             /\ UNCHANGED << clientIn, relay, seq >>
        ELSE /\ clientIn' = Append(clientIn, Request(seq[ProxyConn], m.method, h.params))
             /\ relay' = [relay EXCEPT ![p] =
                            [st |-> "calling", bid |-> m.id,
                             cid |-> seq[ProxyConn], res |-> NoReq]]
             /\ seq' = [seq EXCEPT ![ProxyConn] = @ + 1]
             /\ UNCHANGED toProc
  /\ UNCHANGED << clientOut, cans, bdone, hpc, req, targets, tasks, results,
                  egErr, nreq, ncn, nbc, nbn, lastSeen >>
  /\ UNCHANGED << providers, closed, diagVars, fnVars >>

\* Mutant: the reply goes to the connection of the next backend.
ProcessServer_Handle_Reply_Misrouted(p) ==
  /\ relay[p].st = "replied"
  /\ toProc' = [toProc EXCEPT ![(p % NumProcs) + 1] =
                  Append(@, IF relay[p].res.err # ""
                            THEN ErrorResponse(relay[p].bid, CodeInternalError,
                                               relay[p].res.err)
                            ELSE Response(relay[p].bid, relay[p].res.body))]
  /\ relay' = [relay EXCEPT ![p] = RelayIdle]
  /\ UNCHANGED << clientOut, clientIn, cans, bdone, fromProc, hpc, req, targets,
                  tasks, results, egErr, seq, nreq, ncn, nbc, nbn, lastSeen >>
  /\ UNCHANGED << providers, closed, diagVars, fnVars >>

\* Handle, a call of the backend: s.proxyConn.Call has returned; the reply
\* goes to conn, the backend's own connection.
ProcessServer_Handle_Reply(p) ==
  /\ relay[p].st = "replied"
  /\ toProc' = [toProc EXCEPT ![p] =
                  Append(@, IF relay[p].res.err # ""
                            THEN ErrorResponse(relay[p].bid, CodeInternalError,
                                               relay[p].res.err)
                            ELSE Response(relay[p].bid, relay[p].res.body))]
  /\ relay' = [relay EXCEPT ![p] = RelayIdle]
  /\ UNCHANGED << clientOut, clientIn, cans, bdone, fromProc, hpc, req, targets,
                  tasks, results, egErr, seq, nreq, ncn, nbc, nbn, lastSeen >>
  /\ UNCHANGED << providers, closed, diagVars, fnVars >>


(***************************************************************************)
(* The backends: external processes that answer, publish and call.         *)
(***************************************************************************)
\* The backend answers the requests sent to it, in the order it got them.
Backend_Reply(p) ==
  /\ bdone[p] < Len(Requests(toProc[p]))
  /\ bdone' = [bdone EXCEPT ![p] = @ + 1]
  /\ LET m == Requests(toProc[p])[bdone[p] + 1] IN
       \E ok \in BOOLEAN :
         fromProc' = [fromProc EXCEPT ![p] =
            Append(@, IF ok THEN Response(m.id, BackendResult(p, m.method))
                      ELSE ErrorResponse(m.id, -32000, BackendError(p)))]
  /\ UNCHANGED << clientOut, clientIn, cans, toProc, hpc, req, targets, tasks,
                  results, egErr, relay, seq, nreq, ncn, nbc, nbn, lastSeen >>
  /\ UNCHANGED << providers, closed, diagVars, fnVars >>

BackendNotifParams(method, u, n) ==
  IF method = MethodTextDocumentPublishDiagnostics
  THEN [URI |-> u, Diagnostics |-> << [Message |-> n, Source |-> ""] >>]
  ELSE NoBody

Backend_Notify(p, method) ==
  /\ MayOriginate
  /\ nbn < MaxBackendNotifs
  /\ nbn' = nbn + 1
  /\ \E u \in Docs :
       fromProc' = [fromProc EXCEPT ![p] =
                      Append(@, Notification(method, BackendNotifParams(method, u, nbn + 1)))]
  /\ UNCHANGED << clientOut, clientIn, cans, toProc, bdone, hpc, req, targets,
                  tasks, results, egErr, relay, seq, nreq, ncn, nbc, lastSeen >>
  /\ UNCHANGED << providers, closed, diagVars, fnVars >>

Backend_Call(p) ==
  /\ MayOriginate
  /\ nbc < MaxBackendCalls
  /\ nbc' = nbc + 1
  /\ fromProc' = [fromProc EXCEPT ![p] =
       Append(@, Request(nbc, MethodClientRegisterCapability,
                         [Registrations |->
                            << [Method |-> MethodWorkspaceDidChangeWatchedFiles,
                                RegisterOptions |-> "backend-watchers"] >>]))]
  /\ UNCHANGED << clientOut, clientIn, cans, toProc, bdone, hpc, req, targets,
                  tasks, results, egErr, relay, seq, nreq, ncn, nbn, lastSeen >>
  /\ UNCHANGED << providers, closed, diagVars, fnVars >>

Next ==
  \/ \E method \in ClientMethods : ClientRequest(method)
  \/ ClientNotify
  \/ ClientAnswer
  \/ ProxyServer_Handle_Notif
  \/ ProxyServer_Handle_Request
  \/ ProxyServer_Handle_Reply
  \/ ProxyConn_Response
  \/ \E p \in Procs : ProcConn_Response(p)
  \/ \E p \in Procs : ProcessServer_Handle_Notif(p)
  \/ \E p \in Procs : ProcessServer_Handle_Call(p)
  \/ \E p \in Procs : ProcessServer_Handle_Reply(p)
  \/ \E p \in Procs : Backend_Reply(p)
  \/ \E p \in Procs, method \in BackendNotifMethods : Backend_Notify(p, method)
  \/ \E p \in Procs : Backend_Call(p)

Spec == Init /\ [][Next]_vars


\* The goroutines of the proxy run, every backend answers the requests sent
\* to it and the client answers the calls relayed to it.
FairSpec ==
  /\ Spec
  /\ WF_vars(ProxyServer_Handle_Notif)
  /\ WF_vars(ProxyServer_Handle_Request)
  /\ WF_vars(ProxyServer_Handle_Reply)
  /\ WF_vars(ProxyConn_Response)
  /\ \A p \in Procs :
       /\ WF_vars(ProcConn_Response(p))
       /\ WF_vars(ProcessServer_Handle_Notif(p))
       /\ WF_vars(ProcessServer_Handle_Call(p))
       /\ WF_vars(ProcessServer_Handle_Reply(p))
       /\ WF_vars(Backend_Reply(p))
  /\ WF_vars(ClientAnswer)

\* The goroutines of the proxy run; a backend may leave a request
\* unanswered for ever, and so may the client.
FairProxySpec ==
  /\ Spec
  /\ WF_vars(ProxyServer_Handle_Notif)
  /\ WF_vars(ProxyServer_Handle_Request)
  /\ WF_vars(ProxyServer_Handle_Reply)
  /\ WF_vars(ProxyConn_Response)
  /\ \A p \in Procs :
       /\ WF_vars(ProcConn_Response(p))
       /\ WF_vars(ProcessServer_Handle_Notif(p))
       /\ WF_vars(ProcessServer_Handle_Call(p))
       /\ WF_vars(ProcessServer_Handle_Reply(p))

(***************************************************************************)
(* Properties of the running proxy.                                        *)
(***************************************************************************)
Replies(id) ==
  { k \in 1..Len(clientIn) : clientIn[k].kind = "resp" /\ clientIn[k].id = id }

IssuedIds == 1..nreq

\* C1: the proxy sends at most one reply per request identifier the client
\* issued, and no reply under an identifier the client did not issue.
C1_OneReplyPerIssuedId ==
  /\ \A k \in 1..Len(clientIn) :
       clientIn[k].kind = "resp" => clientIn[k].id \in IssuedIds
  /\ \A id \in IssuedIds : Cardinality(Replies(id)) <= 1

\* Two requests were answered, the last one from the replies of every backend.
C1_Witness ==
  /\ hpc = "idle"
  /\ Len(targets) = NumProcs
  /\ \A k \in 1..Len(tasks) : tasks[k].st = "ok"
  /\ \A id \in 1..2 : Cardinality(Replies(id)) = 1

\* C2: every request the client issued is eventually answered, when the
\* backends answer what they are sent.
C2_EveryRequestAnswered ==
  \A id \in 1..MaxRequests : (nreq >= id) ~> (Replies(id) # {})

\* C3: when a backend call of a fan-out returned an error, the client gets
\* one reply for the request: an internal error carrying the first error the
\* group saw, and no result.
C3_FanoutErrorYieldsOneErrorReply ==
  (hpc = "idle" /\ \E k \in 1..Len(tasks) : tasks[k].st = "err") =>
    /\ Cardinality(Replies(req.id)) = 1
    /\ \A k \in Replies(req.id) :
         /\ clientIn[k].code = CodeInternalError
         /\ clientIn[k].body = NoBody
         /\ clientIn[k].err = egErr
         /\ \E j \in 1..Len(tasks) :
              tasks[j].st = "err" /\ egErr = BackendError(targets[j])

\* One backend of the fan-out failed and another one succeeded.
C3_Witness ==
  /\ hpc = "idle"
  /\ \E j, k \in 1..Len(tasks) : tasks[j].st = "err" /\ tasks[k].st = "ok"
  /\ Replies(req.id) # {}

\* C14: once a backend call of a fan-out has returned an error, the client
\* gets the reply to the request, whether the other backends of the fan-out
\* answer or not.
C14_ErrorEndsTheWait ==
  \A id \in 1..MaxRequests :
    (hpc = "wait" /\ req.id = id /\ \E k \in 1..Len(tasks) : tasks[k].st = "err")
      ~> (Replies(id) # {})

\* C15: a request that has arrived from the client is dispatched to its
\* backends, whether the fan-out of the request before it has ended or not.
C15_SecondRequestDispatched ==
  \A id \in 1..MaxRequests :
    (\E k \in 1..Len(clientOut) :
        clientOut[k].kind = "req" /\ clientOut[k].id = id)
      ~> (req.id = id /\ \E p \in Procs : Requests(toProc[p]) # << >>)

\* C16: slot i of the result list holds the reply of the i-th backend of
\* the input list once that backend's call has returned it, in whatever
\* order the backends reply, and holds nothing before.
C16_SlotHoldsOwnBackendsReply ==
  \A k \in 1..Len(results) :
    results[k] = IF tasks[k].st = "ok" THEN BackendResult(targets[k], req.method)
                 ELSE NoBody

\* The second backend of the list has replied, the first one has not.
C16_Witness ==
  /\ hpc = "wait"
  /\ Len(targets) = NumProcs
  /\ tasks[1].st = "calling"
  /\ tasks[2].st = "ok"
  /\ results[2] = BackendResult(targets[2], req.method)

Last(s) == s[Len(s)]

Grew(s, t) == Len(t) = Len(s) + 1 /\ SubSeq(t, 1, Len(s)) = s

\* What a step does for backend p's relay.
RelayedCorrectly(p) ==
  \* a call read from p goes to the client as a call with the same method
  /\ (relay[p].st = "idle" /\ relay'[p].st = "calling") =>
       /\ Head(fromProc[p]).kind = "req"
       /\ relay'[p].bid = Head(fromProc[p]).id
       /\ Grew(clientIn, clientIn')
       /\ Last(clientIn').kind = "req"
       /\ Last(clientIn').method = Head(fromProc[p]).method
       /\ Last(clientIn').id = relay'[p].cid
  \* the call returns with the client's response to it
  /\ (relay[p].st = "calling" /\ relay'[p].st = "replied") =>
       /\ Head(clientOut).kind = "resp"
       /\ Head(clientOut).id = relay[p].cid
       /\ relay'[p].res = Head(clientOut)
       /\ relay'[p].bid = relay[p].bid
  \* a response is written to p only for p's own call, once it has returned
  /\ (toProc'[p] # toProc[p] /\ Last(toProc'[p]).kind = "resp") =>
       /\ Grew(toProc[p], toProc'[p])
       /\ relay[p].st = "replied"
       /\ relay'[p].st = "idle"
       /\ Last(toProc'[p]) =
            IF relay[p].res.err = ""
            THEN Response(relay[p].bid, relay[p].res.body)
            ELSE ErrorResponse(relay[p].bid, CodeInternalError, relay[p].res.err)
  \* a notification read from p goes to the client as it is; p gets nothing
  /\ (fromProc'[p] # fromProc[p] /\ Len(fromProc'[p]) < Len(fromProc[p])
        /\ Head(fromProc[p]).kind = "notif") =>
       /\ clientIn' = Append(clientIn, Notification(Head(fromProc[p]).method,
                                                     Head(fromProc[p]).body))
       /\ toProc' = toProc
       /\ relay' = relay

\* C19: a call issued by a backend is relayed to the client as a call with
\* the same method; the one reply to it is written to that backend's own
\* connection and carries the client's result, or an internal error when
\* the relayed call failed; no other backend gets it; a notification of a
\* backend is relayed as a notification and is not answered.
C19_BackendCallsRelayed ==
  /\ [](\A p, q \in Procs :
          (p # q /\ relay[p].st # "idle" /\ relay[q].st # "idle") =>
            relay[p].cid # relay[q].cid)
  /\ [][\A p \in Procs : RelayedCorrectly(p)]_vars

\* A backend got the client's answer to a call it had issued.
C19_Witness ==
  \E p \in Procs :
    /\ relay[p].st = "idle"
    /\ toProc[p] # << >>
    /\ Last(toProc[p]).kind = "resp"
    /\ \E k \in 1..Len(clientIn) :
         clientIn[k].kind = "req" /\ clientIn[k].method = MethodClientRegisterCapability

\* C20: relaying does not deadlock: in no state does Handle on the client
\* connection wait for the reply of a backend whose own handler waits for
\* the client's reply to a call that backend issued.
C20_NoRelayDeadlock ==
  ~ \E p \in Procs :
      /\ hpc = "wait"
      /\ relay[p].st = "calling"
      /\ \E k \in 1..Len(tasks) : targets[k] = p /\ tasks[k].st = "calling"

Publishes(u) ==
  { k \in 1..Len(clientIn) :
      /\ clientIn[k].kind = "notif"
      /\ clientIn[k].method = MethodTextDocumentPublishDiagnostics
      /\ clientIn[k].body.URI = u }

Max(S) == CHOOSE x \in S : \A y \in S : y <= x

Messages(diags) == { diags[k].Message : k \in 1..Len(diags) }

\* C4: the publish notification the client received last for a document
\* carries the most recent diagnostics of every backend for it.
C4_ClientSeesUnion ==
  \A u \in Docs :
    Publishes(u) # {} =>
      \A p \in Procs :
        Messages(lastSeen[u][p].diags) \subseteq
          Messages(clientIn[Max(Publishes(u))].body.Diagnostics)


(***************************************************************************)
(* Diagnostics aggregation run by concurrent callers, one per backend:     *)
(* handleTextDocumentPublishDiagnostics step by step, under diagMu, and    *)
(* then handleNotify's send of the merged params to the client.            *)
(***************************************************************************)
Diagnostic(message, source) == [Message |-> message, Source |-> source]

DiagBatches ==
  { << >>,
    << Diagnostic(1, "") >>,
    << Diagnostic(2, "eslint"), Diagnostic(3, "") >> }

InitDiag ==
  /\ providers = UsageProviders
  /\ InitConfig
  /\ InitConn
  /\ fnPc = [p \in Procs |-> "idle"]
  /\ fnIn = [p \in Procs |-> NoBody]
  /\ fnOut = [p \in Procs |-> NoBody]

\* sonic.Unmarshal(*req.Params, &params)
Diag_Enter(p, u, batch) ==
  /\ fnPc[p] = "idle"
  /\ nbn < MaxPublishes
  /\ nbn' = nbn + 1
  /\ fnIn' = [fnIn EXCEPT ![p] = [URI |-> u, Diagnostics |-> batch]]
  /\ fnPc' = [fnPc EXCEPT ![p] = "lock"]
  /\ UNCHANGED << clientOut, clientIn, cans, toProc, bdone, fromProc, hpc, req,
                  targets, tasks, results, egErr, relay, seq, nreq, ncn, nbc,
                  lastSeen >>
  /\ UNCHANGED << providers, closed, diagVars, fnOut >>

\* s.diagMu.Lock()
Diag_Lock(p) ==
  /\ fnPc[p] = "lock"
  /\ diagMu = 0
  /\ diagMu' = p
  /\ fnPc' = [fnPc EXCEPT ![p] = "locked"]
  /\ UNCHANGED << providers, closed, diagCache, connVars, fnIn, fnOut >>

\* The stamping loop and s.diagCache[params.URI][sourceTag] = params.Diagnostics
Diag_Store(p) ==
  /\ fnPc[p] = "locked"
  /\ diagCache' = StoreDiagnostics(diagCache, fnIn[p].URI, Name(p),
                                   Stamp(fnIn[p].Diagnostics, Name(p)))
  /\ lastSeen' = [lastSeen EXCEPT ![fnIn[p].URI][p] =
                    [n |-> @.n + 1, diags |-> fnIn[p].Diagnostics]]
  /\ fnPc' = [fnPc EXCEPT ![p] = "stored"]
  /\ UNCHANGED << clientOut, clientIn, cans, toProc, bdone, fromProc, hpc, req,
                  targets, tasks, results, egErr, relay, seq, nreq, ncn, nbc,
                  nbn >>
  /\ UNCHANGED << providers, closed, diagMu, fnIn, fnOut >>

\* The loop over s.diagCache[params.URI] and the returned params
Diag_Merge(p) ==
  /\ fnPc[p] = "stored"
  /\ \E m \in MergedDiagnostics(diagCache, fnIn[p].URI) :
       fnOut' = [fnOut EXCEPT ![p] = [URI |-> fnIn[p].URI, Diagnostics |-> m]]
  /\ fnPc' = [fnPc EXCEPT ![p] = "merged"]
  /\ UNCHANGED << providers, closed, diagVars, connVars, fnIn >>

\* defer s.diagMu.Unlock()
Diag_Unlock(p) ==
  /\ fnPc[p] = "merged"
  /\ diagMu' = 0
  /\ fnPc' = [fnPc EXCEPT ![p] = "notify"]
  /\ UNCHANGED << providers, closed, diagCache, connVars, fnIn, fnOut >>

\* handleNotify: s.conn.Notify(ctx, req.Method, params), after the
\* aggregation has returned and released diagMu.
Diag_Notify(p) ==
  /\ fnPc[p] = "notify"
  /\ clientIn' = Append(clientIn,
                        Notification(MethodTextDocumentPublishDiagnostics, fnOut[p]))
  /\ fnPc' = [fnPc EXCEPT ![p] = "idle"]
  /\ UNCHANGED << clientOut, cans, toProc, bdone, fromProc, hpc, req, targets,
                  tasks, results, egErr, relay, seq, nreq, ncn, nbc, nbn,
                  lastSeen >>
  /\ UNCHANGED << providers, closed, diagVars, fnIn, fnOut >>

NextDiag ==
  \/ \E p \in Procs, u \in Docs, batch \in DiagBatches : Diag_Enter(p, u, batch)
  \/ \E p \in Procs : Diag_Lock(p)
  \/ \E p \in Procs : Diag_Store(p)
  \/ \E p \in Procs : Diag_Merge(p)
  \/ \E p \in Procs : Diag_Unlock(p)
  \/ \E p \in Procs : Diag_Notify(p)

SpecDiag == InitDiag /\ [][NextDiag]_vars

\* C5: the cache holds, for every document and backend, the batch that
\* backend's last aggregation stored (stamped), and nothing else; a merged
\* batch is the concatenation, in some order, of the lists stored for its
\* document, each taken once.
C5_CacheHoldsLatestOfEach ==
  /\ \A u \in Docs, p \in Procs :
       lastSeen[u][p].n > 0 =>
         /\ u \in DOMAIN diagCache
         /\ Name(p) \in DOMAIN diagCache[u]
         /\ diagCache[u][Name(p)] = Stamp(lastSeen[u][p].diags, Name(p))
  /\ \A u \in DOMAIN diagCache :
       \A name \in DOMAIN diagCache[u] :
         \E p \in Procs : Name(p) = name /\ lastSeen[u][p].n > 0
  /\ \A p \in Procs :
       fnPc[p] = "merged" =>
         fnOut[p].Diagnostics \in MergedDiagnostics(diagCache, fnOut[p].URI)

\* Backend 1 replaced its batch for a document for which backend 2 holds one.
C5_Witness ==
  \E u \in Docs :
    /\ lastSeen[u][1].n >= 2
    /\ lastSeen[u][2].n >= 1
    /\ lastSeen[u][2].diags # << >>
    /\ fnPc[1] = "merged"
    /\ fnOut[1].URI = u
    /\ Len(fnOut[1].Diagnostics) >= 3

InSeq(x, s) == \E k \in 1..Len(s) : s[k] = x

\* No aggregation for u is between its store and its send.
Settled(u) ==
  \A p \in Procs : fnPc[p] \in {"idle", "lock"} \/ fnIn[p].URI # u

\* C21: merged publish notifications reach the client in the order in which
\* they were computed under diagMu: once the aggregations for a document
\* have sent theirs, the last one the client got for it is a merge of the
\* lists the cache holds, the latest of every backend.
C21_LastNotificationIsLatestMerge ==
  \A u \in Docs :
    (Settled(u) /\ Publishes(u) # {}) =>
      clientIn[Max(Publishes(u))].body.Diagnostics \in MergedDiagnostics(diagCache, u)

\* C11: in an aggregation, a diagnostic of the incoming batch that has no
\* source tag is stored and forwarded tagged with the name of the backend it
\* came from, and a diagnostic that has a source tag keeps it.
C11_UntaggedStampedTaggedKept ==
  \A p \in Procs :
    fnPc[p] \in {"stored", "merged"} =>
      LET in == fnIn[p].Diagnostics
          st == diagCache[fnIn[p].URI][Name(p)]
      IN /\ Len(st) = Len(in)
         /\ \A k \in 1..Len(in) :
              /\ st[k].Message = in[k].Message
              /\ st[k].Source = IF in[k].Source = "" THEN Name(p)
                                ELSE in[k].Source
              /\ fnPc[p] = "merged" => InSeq(st[k], fnOut[p].Diagnostics)

\* A batch with a tagged and an untagged diagnostic was stored and merged.
C11_Witness ==
  \E p \in Procs :
    /\ fnPc[p] = "merged"
    /\ InSeq(Diagnostic(2, "eslint"), fnIn[p].Diagnostics)
    /\ InSeq(Diagnostic(3, ""), fnIn[p].Diagnostics)
    /\ InSeq(Diagnostic(2, "eslint"), fnOut[p].Diagnostics)
    /\ InSeq(Diagnostic(3, Name(p)), fnOut[p].Diagnostics)


(***************************************************************************)
(* Dispatch of one request under every provider table (of the bounded      *)
(* shape below): the client has issued one request and Handle takes it.    *)
(***************************************************************************)
ProviderKeys == { providerMap[m] : m \in DOMAIN providerMap }

ProviderNames == { Name(p) : p \in Procs } \cup { "unknown-language-server" }

ProviderLists == UNION { [1..n -> ProviderNames] : n \in 0..MaxProviders }

EmptyProviders == [k \in {} |-> << >>]

DispatchMethods == DOMAIN providerMap \cup { MethodShutdown }

OptionsMap(K) == [k |-> "map", v |-> [n \in K |-> Scalar(n)]]

InitDispatch ==
  /\ \/ providers = EmptyProviders
     \/ providers = UsageProviders
     \/ \E key \in ProviderKeys, list \in ProviderLists : providers = (key :> list)
  /\ InitConfig
  /\ InitFn
  /\ \/ \E method \in DispatchMethods :
          InitConnAfter(<< Request(1, method, NoBody) >>, 1)
     \/ InitConnAfter(<< Request(1, MethodInitialize,
                                 [InitializationOptions |->
                                    [k |-> "absent", v |-> NoBody]]) >>, 1)
     \/ InitConnAfter(<< Request(1, MethodInitialize,
                                 [InitializationOptions |-> Scalar("flat")]) >>, 1)
     \/ \E K \in SUBSET ProviderNames :
          InitConnAfter(<< Request(1, MethodInitialize,
                                   [InitializationOptions |-> OptionsMap(K)]) >>, 1)

NextDispatch == ProxyServer_Handle_Request

SpecDispatch == InitDispatch /\ [][NextDispatch]_vars

Received(p) == Requests(toProc[p])

Entry(method) ==
  IF method \in DOMAIN providerMap /\ providerMap[method] \in DOMAIN providers
  THEN providers[providerMap[method]]
  ELSE << >>

NamesConfigured(list) == \E p \in Procs : Contains(list, Name(p))

\* C8: a request for a routed method whose provider entry names a
\* configured backend is sent only to configured backends named in the entry.
C8_OnlyNamedBackendsReceive ==
  (hpc = "wait" /\ req.method \in DOMAIN providerMap
     /\ NamesConfigured(Entry(req.method))) =>
    \A p \in Procs :
      Received(p) # << >> => Contains(Entry(req.method), Name(p))

\* A routed request went to one backend and not to another.
C8_Witness ==
  /\ hpc = "wait"
  /\ req.method \in DOMAIN providerMap
  /\ NamesConfigured(Entry(req.method))
  /\ \E p, q \in Procs : Received(p) # << >> /\ Received(q) = << >>

\* C9: a request whose method has no provider entry, an empty entry or an
\* entry naming no configured backend is sent to every configured backend,
\* and so is every initialize request.
C9_FallbackToAllBackends ==
  (hpc = "wait" /\ (req.method = MethodInitialize
                      \/ ~NamesConfigured(Entry(req.method)))) =>
    \A p \in Procs :
      /\ Len(Received(p)) = 1
      /\ Received(p)[1].method = req.method

\* A routed method whose entry names only an unknown backend was broadcast.
C9_Witness ==
  /\ hpc = "wait"
  /\ req.method \in DOMAIN providerMap
  /\ Entry(req.method) # << >>
  /\ ~NamesConfigured(Entry(req.method))
  /\ \A p \in Procs : Len(Received(p)) = 1

(***************************************************************************)
(* One routed request under every provider table of the bounded shape,     *)
(* from its dispatch to the reply the client gets.                         *)
(***************************************************************************)
InitRouted ==
  /\ \/ providers = EmptyProviders
     \/ providers = UsageProviders
     \/ \E key \in ProviderKeys, list \in ProviderLists : providers = (key :> list)
  /\ InitConfig
  /\ InitFn
  /\ \E method \in DispatchMethods :
       InitConnAfter(<< Request(1, method, NoBody) >>, 1)

NextRouted ==
  \/ ProxyServer_Handle_Request
  \/ \E p \in Procs : Backend_Reply(p)
  \/ \E p \in Procs : ProcConn_Response(p)
  \/ ProxyServer_Handle_Reply

SpecRouted == InitRouted /\ [][NextRouted]_vars

\* The backend named first in the list among the configured backends.
FirstConfigured(list) ==
  LET k == CHOOSE k \in 1..Len(list) :
             /\ \E p \in Procs : Name(p) = list[k]
             /\ \A j \in 1..(k - 1) : \A p \in Procs : Name(p) # list[j]
  IN CHOOSE p \in Procs : Name(p) = list[k]

FirstInProviderOrder(method) ==
  IF NamesConfigured(Entry(method)) THEN FirstConfigured(Entry(method))
  ELSE procs[1]

\* C17: the reply to a request that is neither initialize nor completion is
\* the raw result of the backend named first in the method's provider entry
\* among the configured backends (of the first configured backend when the
\* request went to all of them), and of no other backend.
C17_FirstInProviderOrderWins ==
  (hpc = "idle" /\ req.id = 1 /\ egErr = ""
     /\ req.method \notin {MethodInitialize, MethodTextDocumentCompletion}) =>
    \A k \in Replies(1) :
      clientIn[k].body = BackendResult(FirstInProviderOrder(req.method), req.method)

(***************************************************************************)
(* One notification of the client under every provider table of the        *)
(* bounded shape, with any of the backends' connections closed.            *)
(***************************************************************************)
NotifyMethods == { MethodTextDocumentDidChange, MethodTextDocumentHover }

InitNotify ==
  /\ \/ providers = EmptyProviders
     \/ providers = UsageProviders
     \/ \E key \in ProviderKeys, list \in ProviderLists : providers = (key :> list)
  /\ closed \in SUBSET Procs
  /\ diagMu = 0
  /\ diagCache = << >>
  /\ fnPc = "off"
  /\ fnIn \in { Notification(method, NoBody) : method \in NotifyMethods }
  /\ fnOut = NoBody
  /\ InitConnAfter(<< fnIn >>, 0)

NextNotify == ProxyServer_Handle_Notif

SpecNotify == InitNotify /\ [][NextNotify]_vars

\* C18: a notification of the client is sent to every backend whose
\* connection takes it, whatever the provider table holds and whichever
\* other sends fail, and nothing is sent to the client.
C18_NotificationReachesEveryBackend ==
  /\ clientIn = << >>
  /\ clientOut = << >> =>
       \A p \in Procs :
         toProc[p] = IF p \in closed THEN << >> ELSE << fnIn >>

\* The send to the first backend failed, the second backend got the
\* notification, and the table names only the first for the method.
C18_Witness ==
  /\ clientOut = << >>
  /\ closed = {1}
  /\ toProc[2] = << Notification(MethodTextDocumentHover, NoBody) >>
  /\ providers = UsageProviders

SameOption(a, b) == a.k = b.k /\ a.v = b.v

\* C10: when the options of initialize are a mapping, each backend receives
\* the entry under its own name as its options, or the whole mapping when
\* its name is not a key.
C10_OptionsSelectedPerBackend ==
  (hpc = "wait" /\ req.method = MethodInitialize
     /\ req.body.InitializationOptions.k = "map") =>
    \A p \in Procs :
      LET opts == req.body.InitializationOptions
          got == Received(p)[1].body.InitializationOptions
      IN IF Name(p) \in DOMAIN opts.v THEN SameOption(got, opts.v[Name(p)])
         ELSE SameOption(got, opts)

(***************************************************************************)
(* The two merges, applied to every result list of the bounded shape.      *)
(***************************************************************************)
ItemLists == { << >>, << "x" >>, << "x", "y" >>, << "z" >> }

CompletionLists == [Items : ItemLists, IsIncomplete : BOOLEAN]

InitCompletion ==
  /\ providers = UsageProviders
  /\ InitConfig
  /\ InitConn
  /\ fnPc = "init"
  /\ fnIn \in UNION { [1..n -> CompletionLists] : n \in 1..MaxResults }
  /\ fnOut = NoBody

Apply_handleTextDocumentCompletion ==
  /\ fnPc = "init"
  /\ fnOut' = handleTextDocumentCompletion(fnIn)
  /\ fnPc' = "done"
  /\ UNCHANGED << providers, closed, diagVars, connVars, fnIn >>

SpecCompletion == InitCompletion /\ [][Apply_handleTextDocumentCompletion]_vars

RECURSIVE AllItems(_, _)
AllItems(rs, k) ==
  IF k > Len(rs) THEN << >> ELSE rs[k].Items \o AllItems(rs, k + 1)

\* C6: the merged completion list holds the items of every backend, in
\* backend order, and is incomplete exactly when some backend's list is.
C6_CompletionConcatenatesAll ==
  fnPc = "done" =>
    /\ fnOut.Items = AllItems(fnIn, 1)
    /\ fnOut.IsIncomplete = (\E k \in 1..Len(fnIn) : fnIn[k].IsIncomplete)

CapabilityNames == {"HoverProvider", "CompletionProvider"}

Capabilities == [CapabilityNames -> BOOLEAN]

InitInitialize ==
  /\ providers = UsageProviders
  /\ InitConfig
  /\ InitConn
  /\ fnPc = "init"
  /\ \E n \in 1..MaxResults :
       \E caps \in [1..n -> Capabilities] :
         fnIn = [k \in 1..n |->
                   [ServerInfo |-> ProcNames[k], Capabilities |-> caps[k]]]
  /\ fnOut = NoBody

Apply_handleInitialize ==
  /\ fnPc = "init"
  /\ fnOut' = handleInitialize(fnIn)
  /\ fnPc' = "done"
  /\ UNCHANGED << providers, closed, diagVars, connVars, fnIn >>

SpecInitialize == InitInitialize /\ [][Apply_handleInitialize]_vars

\* C7: the initialize reply declares exactly the capabilities some backend
\* declared, under the first backend's identity.
C7_InitializeDeclaresUnion ==
  fnPc = "done" =>
    /\ fnOut.ServerInfo = fnIn[1].ServerInfo
    /\ \A c \in CapabilityNames :
         fnOut.Capabilities[c] = (\E k \in 1..Len(fnIn) : fnIn[k].Capabilities[c])


(***************************************************************************)
(* merge applied to every pair of slices of the bounded shape.  A slice    *)
(* handed to merge as an any is a non-nil interface value, whether the     *)
(* slice is empty or not.                                                  *)
(***************************************************************************)
SliceElems == {"a", "b", "c"}

Slices == UNION { [1..n -> SliceElems] : n \in 0..MaxSliceLen }

InitMerge ==
  /\ providers = UsageProviders
  /\ InitConfig
  /\ InitConn
  /\ fnPc = "init"
  /\ fnIn \in [o : Slices, n : Slices]
  /\ fnOut = NoBody

Apply_merge ==
  /\ fnPc = "init"
  /\ fnOut' = merge(Val(fnIn.o), Val(fnIn.n))
  /\ fnPc' = "done"
  /\ UNCHANGED << providers, closed, diagVars, connVars, fnIn >>

SpecMerge == InitMerge /\ [][Apply_merge]_vars

RECURSIVE Fresh(_, _)
Fresh(b, seen) ==
  IF b = << >> THEN << >>
  ELSE IF InSeq(Head(b), seen) THEN Fresh(Tail(b), seen)
  ELSE << Head(b) >> \o Fresh(Tail(b), Append(seen, Head(b)))

\* C12: merge(a, b) of two sequences is a followed by the elements of b
\* that are not in a, in b's order and each once; so merge(a, a) is a.
C12_MergeAppendsFreshElements ==
  fnPc = "done" =>
    /\ fnOut.k = "val"
    /\ fnOut.v = fnIn.o \o Fresh(fnIn.n, fnIn.o)


(***************************************************************************)
(* VSCodeObjectCodec (util.go).  A byte string is a sequence of runs       *)
(* [b, n]: byte b repeated n times.  Lengths are unsigned numbers of two   *)
(* 16-bit limbs [hi, lo], so that a length of 2^32 and the range of        *)
(* strconv.ParseUint(line, 10, 32) can be written down.                    *)
(***************************************************************************)
LimbBase == 2^16

Wide(hi, lo) == [hi |-> hi + (lo \div LimbBase), lo |-> lo % LimbBase]

WZero == Wide(0, 0)

WOne == Wide(0, 1)

WAdd(a, b) == Wide(a.hi + b.hi, a.lo + b.lo)

\* a - b, for b <= a
WSub(a, b) ==
  IF a.lo >= b.lo THEN Wide(a.hi - b.hi, a.lo - b.lo)
  ELSE Wide(a.hi - b.hi - 1, a.lo + LimbBase - b.lo)

WLeq(a, b) == a.hi < b.hi \/ (a.hi = b.hi /\ a.lo <= b.lo)

WDiv10(a) ==
  Wide(a.hi \div 10, ((a.hi % 10) * LimbBase + a.lo) \div 10)

WMod10(a) == ((a.hi % 10) * LimbBase + a.lo) % 10

Run(b, n) == [b |-> b, n |-> n]

Bytes(chars) == [k \in 1..Len(chars) |-> Run(chars[k], WOne)]

RECURSIVE BLen(_)
BLen(s) == IF s = << >> THEN WZero ELSE WAdd(Head(s).n, BLen(Tail(s)))

CR == "\r"

LF == "\n"

Quote == "\""

DigitChars == << "0", "1", "2", "3", "4", "5", "6", "7", "8", "9" >>

ContentLengthPrefix ==
  << "C", "o", "n", "t", "e", "n", "t", "-", "L", "e", "n", "g", "t", "h",
     ":", " " >>

\* The %d verb of fmt.Fprintf.
RECURSIVE FormatUint(_)
FormatUint(a) ==
  IF a.hi = 0 /\ a.lo < 10 THEN << DigitChars[a.lo + 1] >>
  ELSE Append(FormatUint(WDiv10(a)), DigitChars[WMod10(a) + 1])

DigitOf(c) == CHOOSE d \in 0..9 : DigitChars[d + 1] = c

\* strconv.ParseUint(line, 10, 32): the digits read so far are worth acc.
RECURSIVE ParseUintFrom(_, _)
ParseUintFrom(chars, acc) ==
  IF chars = << >> THEN [err |-> "", v |-> acc]
  ELSE IF ~InSeq(Head(chars), DigitChars)
  THEN [err |-> "invalid syntax", v |-> WZero]
  ELSE LET next == Wide(acc.hi * 10, acc.lo * 10 + DigitOf(Head(chars)))
       IN IF next.hi >= LimbBase
          THEN [err |-> "value out of range", v |-> WZero]
          ELSE ParseUintFrom(Tail(chars), next)

ParseUint(chars) ==
  IF chars = << >> THEN [err |-> "invalid syntax", v |-> WZero]
  ELSE ParseUintFrom(chars, WZero)


\* bufio.Reader: ReadByte and ReadString.  rest is what the reader still holds.
DropOne(s) ==
  IF Head(s).n = WOne THEN Tail(s)
  ELSE << Run(Head(s).b, WSub(Head(s).n, WOne)) >> \o Tail(s)

ReadByte(s) ==
  IF s = << >> THEN [err |-> "EOF", b |-> "", rest |-> s]
  ELSE [err |-> "", b |-> Head(s).b, rest |-> DropOne(s)]

\* The first run of s that holds delim; 0 when there is none.
RECURSIVE IndexByte(_, _)
IndexByte(s, delim) ==
  IF s = << >> THEN 0
  ELSE IF Head(s).b = delim THEN 1
  ELSE LET i == IndexByte(Tail(s), delim) IN IF i = 0 THEN 0 ELSE i + 1

ReadString(s, delim) ==
  LET i == IndexByte(s, delim) IN
  IF i = 0 THEN [err |-> "EOF", line |-> s, rest |-> << >>]
  ELSE [err |-> "",
        line |-> Append(SubSeq(s, 1, i - 1), Run(delim, WOne)),
        rest |-> DropOne(SubSeq(s, i, Len(s)))]

\* io.LimitReader(stream, n) hands out the first n bytes of s.
RECURSIVE LimitReader(_, _)
LimitReader(s, n) ==
  IF s = << >> \/ n = WZero THEN << >>
  ELSE IF WLeq(Head(s).n, n)
  THEN << Head(s) >> \o LimitReader(Tail(s), WSub(n, Head(s).n))
  ELSE << Run(Head(s).b, n) >>

\* s after n of its bytes were read.
RECURSIVE Discard(_, _)
Discard(s, n) ==
  IF s = << >> \/ n = WZero THEN s
  ELSE IF WLeq(Head(s).n, n) THEN Discard(Tail(s), WSub(n, Head(s).n))
  ELSE << Run(Head(s).b, WSub(Head(s).n, n)) >> \o Tail(s)

\* strings.HasPrefix, TrimPrefix and TrimSpace on a header line (its runs
\* hold one byte each).
HasPrefix(line, prefix) ==
  /\ Len(line) >= Len(prefix)
  /\ SubSeq(line, 1, Len(prefix)) = Bytes(prefix)

TrimPrefix(line, prefix) ==
  IF HasPrefix(line, prefix) THEN SubSeq(line, Len(prefix) + 1, Len(line))
  ELSE line

IsSpace(b) == b \in {" ", "\t", CR, LF}

RECURSIVE TrimLeft(_)
TrimLeft(line) ==
  IF line # << >> /\ IsSpace(Head(line).b) THEN TrimLeft(Tail(line)) ELSE line

RECURSIVE TrimRight(_)
TrimRight(line) ==
  IF line # << >> /\ IsSpace(line[Len(line)].b)
  THEN TrimRight(SubSeq(line, 1, Len(line) - 1))
  ELSE line

TrimSpace(line) == TrimRight(TrimLeft(line))

LineChars(line) == [k \in 1..Len(line) |-> line[k].b]

\* sonic.Marshal and the sonic decoder, on JSON strings: a message is the
\* content of a string literal (no quote, no backslash, no control byte).
Marshal(obj) == << Run(Quote, WOne) >> \o obj \o << Run(Quote, WOne) >>

\* Decode: the value and the number of bytes up to the end of the value.
Decode(data) ==
  IF data = << >> THEN [err |-> "EOF", v |-> NoBody, used |-> WZero]
  ELSE IF Head(data).b # Quote
  THEN [err |-> "invalid char", v |-> NoBody, used |-> WZero]
  ELSE LET body == DropOne(data)
           i == IndexByte(body, Quote)
       IN IF i = 0 THEN [err |-> "unexpected EOF", v |-> NoBody, used |-> WZero]
          ELSE [err |-> "",
                v |-> SubSeq(body, 1, i - 1),
                used |-> WAdd(BLen(SubSeq(body, 1, i - 1)), Wide(0, 2))]

WriteObject(stream, obj) ==
  LET data == Marshal(obj)
  IN stream \o Bytes(ContentLengthPrefix) \o Bytes(FormatUint(BLen(data)))
            \o Bytes(<< CR, LF, CR, LF >>) \o data

ReadFailed(err, s) == [err |-> err, v |-> NoBody, rest |-> s]

\* ReadObject after the header block.  The decoder reads from the limited
\* reader up to the end of the value at least and up to the limit at most.
ReadPayload(s, contentLength) ==
  IF contentLength = WZero
  THEN { ReadFailed("jsonrpc2: no Content-Length header found", s) }
  ELSE LET limited == LimitReader(s, contentLength)
           d == Decode(limited)
       IN IF d.err # "" THEN { ReadFailed(d.err, Discard(s, BLen(limited))) }
          ELSE { [err |-> "", v |-> d.v, rest |-> Discard(s, used)] :
                 used \in {d.used, BLen(limited)} }

\* ReadObject: the loop over the header lines, then the payload.
RECURSIVE ReadHeaders(_, _)
ReadHeaders(s, contentLength) ==
  LET rs == ReadString(s, CR) IN
  IF rs.err # "" THEN { ReadFailed(rs.err, rs.rest) }
  ELSE LET rb == ReadByte(rs.rest) IN
       IF rb.err # "" THEN { ReadFailed(rb.err, rb.rest) }
       ELSE IF rb.b # LF
       THEN { ReadFailed("jsonrpc2: line endings must be \\r\\n", rb.rest) }
       ELSE IF rs.line = Bytes(<< CR >>) THEN ReadPayload(rb.rest, contentLength)
       ELSE IF HasPrefix(rs.line, ContentLengthPrefix)
       THEN LET n == ParseUint(LineChars(TrimSpace(
                       TrimPrefix(rs.line, ContentLengthPrefix))))
            IN IF n.err # "" THEN { ReadFailed(n.err, rb.rest) }
               ELSE ReadHeaders(rb.rest, n.v)
       ELSE ReadHeaders(rb.rest, contentLength)

ReadObject(stream) == ReadHeaders(stream, WZero)


(***************************************************************************)
(* Two messages written to one stream by WriteObject, then read back by    *)
(* ReadObject.                                                             *)
(***************************************************************************)
CodecMessages ==
  { << >>,
    Bytes(<< "o", "k" >>),
    Bytes(<< "C", "1", ":", " " >>),
    << Run("x", Wide(0, 9)) >>,
    << Run("x", Wide(0, 98)), Run("y", WOne) >>,
    << Run("x", Wide(LimbBase - 1, LimbBase - 3)) >>,
    << Run("x", Wide(LimbBase - 1, LimbBase - 2)) >> }

InitCodec ==
  /\ providers = UsageProviders
  /\ InitConfig
  /\ InitConn
  /\ fnPc = "init"
  /\ fnIn \in [1..2 -> CodecMessages]
  /\ fnOut = [stream |-> << >>, out |-> << >>, err |-> ""]

Codec_WriteObject ==
  /\ fnPc \in {"init", "w1"}
  /\ LET k == IF fnPc = "init" THEN 1 ELSE 2 IN
       fnOut' = [fnOut EXCEPT !.stream = WriteObject(@, fnIn[k])]
  /\ fnPc' = IF fnPc = "init" THEN "w1" ELSE "w2"
  /\ UNCHANGED << providers, closed, diagVars, connVars, fnIn >>

Codec_ReadObject ==
  /\ fnPc \in {"w2", "r1"}
  /\ \E r \in ReadObject(fnOut.stream) :
       /\ fnOut' = [stream |-> r.rest,
                    out |-> IF r.err = "" THEN Append(fnOut.out, r.v)
                            ELSE fnOut.out,
                    err |-> r.err]
       /\ fnPc' = IF r.err # "" THEN "err"
                  ELSE IF fnPc = "w2" THEN "r1" ELSE "r2"
  /\ UNCHANGED << providers, closed, diagVars, connVars, fnIn >>

NextCodec == Codec_WriteObject \/ Codec_ReadObject

SpecCodec == InitCodec /\ [][NextCodec]_vars

\* C13: decoding what WriteObject produced yields the message written and
\* consumes its header block and payload and no more: the next message on
\* the stream is decoded too.
C13_CodecRoundTrip ==
  /\ fnPc # "err"
  /\ fnPc = "r1" =>
       /\ fnOut.out = << fnIn[1] >>
       /\ fnOut.stream = WriteObject(<< >>, fnIn[2])
  /\ fnPc = "r2" =>
       /\ fnOut.out = << fnIn[1], fnIn[2] >>
       /\ fnOut.stream = << >>

\* The round trip of two messages whose encodings are shorter than 2^32 bytes.
CodecSmall == \A k \in 1..2 : BLen(Marshal(fnIn[k])).hi < LimbBase

CodecRoundTripOfSmall == CodecSmall => C13_CodecRoundTrip


=============================================================================
